---- MODULE Spec2Model ----
(***************************************************************************)
(* The particle renderer of Art-Flow: the particle grid, its               *)
(* (re)initialisation, the per-frame tick (animate) and the pointer        *)
(* handlers, for three renderers of the repository:                        *)
(*   "R"  src/components/Renderer.tsx   (2D, spatial-hash connections)     *)
(*   "A"  src/unnamed/part_000          (2D, origin sampling, size decay)  *)
(*   "U"  src/unnamed/part_002:1-303    (unified mouse / hand pointer)     *)
(*                                                                         *)
(* Numbers.  The code computes in IEEE doubles.  Here every real quantity  *)
(* (coordinates, velocities, sizes, coefficients) is a fixed-point integer *)
(* counted in thousandths (Milli); products and quotients truncate toward  *)
(* zero.  Brightness is an integer 0..255 (frames are grey: r = g = b, so  *)
(* (r+g+b)/3 is the grey level).  Viewport sizes and the gap are integer   *)
(* pixels.                                                                 *)
(*                                                                         *)
(* React.  A prop or state change commits before the next frame callback:  *)
(* each handler below includes the effect clean-ups and effect bodies its  *)
(* state change triggers.                                                  *)
(***************************************************************************)
EXTENDS Integers, Sequences, FiniteSets, TLC

VARIABLES
    mounted,        \* the renderer component is mounted
    variant,        \* which renderer is mounted: "R", "A" or "U"
    styleConfig,    \* the styleConfig prop of the current render
    resizeStyle,    \* the styleConfig captured by the registered handleResize closure
    win,            \* <<window.innerWidth, window.innerHeight>>
    dimensions,     \* the dimensions state: [width, height]
    particles,      \* particlesRef.current
    mouse,          \* mouseRef.current: [x, y, isActive]
    isHandDetected, \* the isHandDetected state ("U")
    isPaused,       \* the isPaused prop
    time,           \* the render-loop effect's local `time`, in thousandths
    raf,            \* the frame callbacks scheduled: "pending": one, "dead":
                    \* none, "doubled": more than one
    frame,          \* what the last frame callback did (draw calls, grid, lines)
    lastOp,         \* the handler that ran last: its kind, and whether it
                    \* called initParticles
    ticks,          \* number of frame callbacks run so far
    prompt,         \* the prompt state of Controls: a sequence of characters
    isGenerating,   \* the isGenerating state of Controls
    requests        \* the generateArtStyle calls in flight: their prompts

\* the state of the controls panel
controls == <<prompt, isGenerating, requests>>

vars == <<mounted, variant, styleConfig, resizeStyle, win, dimensions, particles, mouse,
          isHandDetected, isPaused, time, raf, frame, lastOp, ticks, controls>>

-----------------------------------------------------------------------------
(* Bounds and input sets *)

MaxTicks == 2

Milli == 10 * 10 * 10

Variants == {"R", "A", "U"}

\* window sizes the browser can report (0 while the window is collapsed)
WinSizes == {<<0, 9>>, <<3, 9>>, <<14, 9>>}

\* grey levels of the uniform frames: black, and a level between the
\* visibility thresholds of the renderers (8 <= 10 < 12 < 15)
Levels == {0, 10}

\* styles the parent can pass as styleConfig: shaped after the presets of
\* App.tsx, with gaps and distances scaled to the small viewports above
\* (real fields in thousandths; density and connectionDistance in pixels)
Constellation ==
    [name |-> "Constellation", colors |-> <<"#ffffff", "#aaccff", "#ffccaa">>,
     particleSizeMin |-> 1000, particleSizeMax |-> 4000, density |-> 4,
     speed |-> 1500, friction |-> 950, shape |-> "circle",
     connectionDistance |-> 5, noiseStrength |-> 0, flowFieldStrength |-> 200]

CyberGrid ==
    [name |-> "Cyber Grid", colors |-> <<"#00ff00", "#003300", "#ccffcc">>,
     particleSizeMin |-> 4000, particleSizeMax |-> 12000, density |-> 4,
     speed |-> 200, friction |-> 800, shape |-> "square",
     connectionDistance |-> 0, noiseStrength |-> 0, flowFieldStrength |-> 0]

ChaosTheory ==
    [name |-> "Chaos Theory", colors |-> <<"#ff0055", "#ffff00", "#00ffff">>,
     particleSizeMin |-> 2000, particleSizeMax |-> 20000, density |-> 16,
     speed |-> 1000, friction |-> 900, shape |-> "cross",
     connectionDistance |-> 0, noiseStrength |-> 8000, flowFieldStrength |-> 1000]

\* a generated style whose gap is not positive
ZeroGap == [CyberGrid EXCEPT !.name = "Zero Gap", !.density = 0]

Styles == {Constellation, CyberGrid, ChaosTheory, ZeroGap}

\* a window wide enough for an analysis buffer 3 rows high and for particles
\* two grid cells apart
WideWin == <<121, 25>>

\* styles for the wide window, all of gap 40 (one row of four particles):
\* a flow-field style with connections, a style whose force coefficients are
\* all zero, and an invalid style as a generated configuration can carry it
\* (no colours, and a least size above the greatest)
Swirl ==
    [name |-> "Swirl", colors |-> <<"#112244", "#4488cc", "#ffee88">>,
     particleSizeMin |-> 2000, particleSizeMax |-> 6000, density |-> 40,
     speed |-> 1000, friction |-> 900, shape |-> "line",
     connectionDistance |-> 45, noiseStrength |-> 0, flowFieldStrength |-> 500]

Still ==
    [Swirl EXCEPT !.name = "Still", !.speed = 0, !.flowFieldStrength = 0,
                  !.connectionDistance = 0]

Invalid ==
    [Still EXCEPT !.name = "Invalid", !.colors = <<>>,
                  !.particleSizeMin = 8000, !.particleSizeMax = 2000]

WideStyles == {Swirl, Still, Invalid}

\* the longest palette of the colour mapper's inputs
MaxPalette == 5

\* hex colour codes, and the palettes made of the first n of them
PaletteColors ==
    <<"#000000", "#1b2a49", "#3d5a80", "#98c1d9", "#e0fbfc", "#ee6c4d", "#ffffff">>

Palettes == {SubSeq(PaletteColors, 1, n) : n \in 1..MaxPalette}

\* the grey levels (r + g + b) / 3 of a pixel
Greys == 0..255

-----------------------------------------------------------------------------
(* Arithmetic *)

Abs(a) == IF a < 0 THEN -a ELSE a

Max(a, b) == IF a >= b THEN a ELSE b

Min(a, b) == IF a <= b THEN a ELSE b

\* a / b truncated toward zero (b > 0)
Quot(a, b) == IF a >= 0 THEN a \div b ELSE -((-a) \div b)

\* fixed-point product of two Milli quantities
Mul(a, b) == Quot(a * b, Milli)

\* Math.ceil(a / b) for a >= 0, b > 0
CeilDiv(a, b) == (a + b - 1) \div b

\* floor of the square root of n >= 0, by bisection between lo and hi
RECURSIVE SqrtBetween(_, _, _)
SqrtBetween(n, lo, hi) ==
    IF lo >= hi THEN lo
    ELSE LET mid == (lo + hi + 1) \div 2
         IN  IF mid * mid <= n THEN SqrtBetween(n, mid, hi)
             ELSE SqrtBetween(n, lo, mid - 1)

ISqrt(n) == SqrtBetween(n, 0, 46340)

\* Math.sin of an angle in thousandths of a radian, in thousandths
\* (Bhaskara's rational approximation on [0, pi], odd and 2 pi-periodic;
\* pi = 3.142, 2 pi = 6.283, 5 pi^2 = 49.348)
SinFx(u) ==
    LET r == u % 6283
        h == IF r <= 3142 THEN r ELSE r - 3142
        P == (h * (3142 - h)) \div 1000
        v == (16 * P * 1000) \div (49348 - 4 * P)
    IN  IF r <= 3142 THEN v ELSE -v

\* Math.cos(u) = sin(u + pi/2)
CosFx(u) == SinFx(u + 1571)

\* Math.sqrt(dx*dx + dy*dy) for |dx|, |dy| < 300 px, in thousandths
\* (to 0.001 px when both are within 30 px, to 0.01 px otherwise)
Dist(dx, dy) ==
    IF Abs(dx) <= 30000 /\ Abs(dy) <= 30000
    THEN ISqrt(dx * dx + dy * dy)
    ELSE 10 * ISqrt(Quot(dx, 10) * Quot(dx, 10) + Quot(dy, 10) * Quot(dy, 10))

\* dx*dx + dy*dy in units of (0.01 px)^2, for |dx|, |dy| < 300 px
DistSqCenti(dx, dy) == Quot(dx, 10) * Quot(dx, 10) + Quot(dy, 10) * Quot(dy, 10)

-----------------------------------------------------------------------------
(* Grid initialisation *)

\* the gap the lattice loops step by
Gap(v, st) ==
    CASE v = "R" -> st.density
      [] v = "A" -> Max(3, st.density)
      [] v = "U" -> Max(4, st.density)

NewParticle(x, y, st) ==
    [x |-> x * Milli, y |-> y * Milli, originX |-> x * Milli, originY |-> y * Milli,
     vx |-> 0, vy |-> 0, size |-> st.particleSizeMin, color |-> "#ffffff",
     brightness |-> 0, nan |-> FALSE]

\* number of values x = 0, gap, 2 gap, ... with x < extent
LoopCountFloor(extent, gap) == IF extent <= 0 THEN 0 ELSE extent \div gap

LoopCount(extent, gap) == IF extent <= 0 THEN 0 ELSE CeilDiv(extent, gap)

\* for (y = 0; y < height; y += gap) for (x = 0; x < width; x += gap) push(...)
Lattice(width, height, gap, st) ==
    LET nx == LoopCount(width, gap)
        ny == LoopCount(height, gap)
    IN  [k \in 1..(nx * ny) |->
            NewParticle(((k - 1) % nx) * gap, ((k - 1) \div nx) * gap, st)]

initParticlesKeepOld(v, st, width, height, old) ==
    IF Gap(v, st) <= 0 THEN old ELSE Lattice(width, height, Gap(v, st), st)

\* the value of particlesRef.current after initParticles(width, height)
initParticles(v, st, width, height, old) ==
    CASE v = "R" -> IF Gap(v, st) <= 0 THEN <<>>
                    ELSE Lattice(width, height, Gap(v, st), st)
      [] v = "A" -> Lattice(width, height, Gap(v, st), st)
      [] v = "U" -> IF width <= 0 \/ height <= 0 THEN old
                    ELSE Lattice(width, height, Gap(v, st), st)

\* handleResize returns before touching anything ("R": a zero window dimension)
ResizeRejected(v, w) == v = "R" /\ (w[1] = 0 \/ w[2] = 0)

\* the dimensions state after handleResize
ResizedDimensions(v, w, old) ==
    IF ResizeRejected(v, w) THEN old ELSE [width |-> w[1], height |-> w[2]]

\* particlesRef.current after handleResize, run with the closure's style st
ResizedParticles(v, st, w, old) ==
    IF ResizeRejected(v, w) THEN old ELSE initParticles(v, st, w[1], w[2], old)

-----------------------------------------------------------------------------
(* The frame: brightness sampling *)

\* analysisScale / sampleScale, in hundredths
ScalePct(v) == CASE v = "R" -> 15 [] v = "A" -> 12 [] v = "U" -> 15

\* Math.floor(dimension * scale): a side of the analysis buffer
AnalysisDim(v, d) == (d * ScalePct(v)) \div 100

ClampCellNoFloor(v, c, n) == Min(n - 1, (c * ScalePct(v)) \div 100000)

\* Math.max(0, Math.min(n - 1, Math.floor(coordinate * scale)))
ClampCell(v, c, n) == Max(0, Min(n - 1, (c * ScalePct(v)) \div 100000))

\* the frames drawImage can put in a w x h analysis buffer, pixel k -> grey
\* level: the uniform frames and the frame lit in its even columns only
Frames(w, h) ==
    {[k \in 0..(w * h - 1) |-> b] : b \in Levels}
        \cup {[k \in 0..(w * h - 1) |-> IF (k % w) % 2 = 0 THEN 255 ELSE 0]}

\* the coordinate the renderer samples at: the position ("R") or the origin
SampleX(v, p) == IF v = "R" THEN p.x ELSE p.originX

SampleY(v, p) == IF v = "R" THEN p.y ELSE p.originY

PixelX(v, p, w) == ClampCell(v, SampleX(v, p), w)

PixelY(v, p, h) == ClampCell(v, SampleY(v, p), h)

\* (r + g + b) / 3 at pixelIndex; a NaN coordinate ("R") reads undefined
Brightness(v, p, img, w, h) ==
    IF v = "R" /\ p.nan THEN 0 ELSE img[PixelY(v, p, h) * w + PixelX(v, p, w)]

\* the visibility test: brightness > 15 ("R"), not < 8 ("A"), not < 12 ("U")
IsLit(v, p, img, w, h) ==
    LET b == Brightness(v, p, img, w, h)
    IN  CASE v = "R" -> ~p.nan /\ b > 15
          [] v = "A" -> ~(b < 8)
          [] v = "U" -> ~(b < 12)

UnlitClearsBrightness(v, p) == [p EXCEPT !.brightness = 0]

\* the unlit branch: nothing ("R"); if (p.size > 0.1) p.size *= 0.85 ("A", "U")
Unlit(v, p) ==
    IF v = "R" THEN p
    ELSE IF p.size > 100 THEN [p EXCEPT !.size = Mul(p.size, 850)] ELSE p

-----------------------------------------------------------------------------
(* The frame: colour and size of a lit particle *)

mapBrightnessToColorRounded(b, palette) ==
    LET index == (b * (Len(palette) - 1) + 127) \div 255
    IN  IF index \in 0 .. Len(palette) - 1 THEN palette[index + 1]
        ELSE IF Len(palette) > 0 THEN palette[1] ELSE "undefined"

\* palette[index] || palette[0] with index = floor((brightness / 255) * (n - 1))
mapBrightnessToColor(b, palette) ==
    LET index == (b * (Len(palette) - 1)) \div 255
    IN  IF index \in 0 .. Len(palette) - 1 THEN palette[index + 1]
        ELSE IF Len(palette) > 0 THEN palette[1] ELSE "undefined"

SizeEaseOvershoot(v) == 1500

\* the smoothing factor of the size easing
SizeEase(v) == CASE v = "R" -> 100 [] v = "A" -> 200 [] v = "U" -> 150

TargetSize(st, b) ==
    st.particleSizeMin + Quot(b * (st.particleSizeMax - st.particleSizeMin), 255)

EasedSize(v, st, p, b) == p.size + Mul(TargetSize(st, b) - p.size, SizeEase(v))

-----------------------------------------------------------------------------
(* The frame: forces.  Each yields the velocity increment [x, y, nan].     *)

NoForce == [x |-> 0, y |-> 0, nan |-> FALSE]

\* no pointer force can reach beyond this many thousandths per axis
Reach == 300 * Milli

\* the pointer's push on particle p
PointerForce(v, st, p, m, hand) ==
    LET dx == m.x - p.x
        dy == m.y - p.y
        dist == Dist(dx, dy)
        d2 == DistSqCenti(dx, dy)
    IN  IF ~m.isActive \/ Abs(dx) >= Reach \/ Abs(dy) >= Reach THEN NoForce
        ELSE CASE v = "R" ->
                 \* dist < 150: force = (150 - dist) / 150, along atan2(dy, dx)
                 IF dist < 150000
                 THEN LET force == Quot(150000 - dist, 150)
                          cos == IF dist = 0 THEN 1000 ELSE Quot(dx * 1000, dist)
                          sin == IF dist = 0 THEN 0 ELSE Quot(dy * 1000, dist)
                      IN  [x |-> -Mul(Mul(cos, force) * 5, st.speed),
                           y |-> -Mul(Mul(sin, force) * 5, st.speed),
                           nan |-> FALSE]
                 ELSE NoForce
               [] v = "A" ->
                 \* d2 < 22000: f = (1 - dist/148) * 22 * speed, v -= (d/dist) * f
                 IF d2 < 220000000
                 THEN IF dist = 0 THEN [x |-> 0, y |-> 0, nan |-> TRUE]
                      ELSE LET f == Mul((1000 - Quot(dist, 148)) * 22, st.speed)
                           IN  [x |-> -Mul(Quot(dx * 1000, dist), f),
                                y |-> -Mul(Quot(dy * 1000, dist), f),
                                nan |-> FALSE]
                 ELSE NoForce
               [] v = "U" ->
                 \* radius = hand ? 80000 : 40000; strength hand ? 48 : 35
                 IF d2 < (IF hand THEN 800000000 ELSE 400000000)
                 THEN IF dist = 0 THEN [x |-> 0, y |-> 0, nan |-> TRUE]
                      ELSE LET root == IF hand THEN 282843 ELSE 200000
                               k == IF hand THEN 48 ELSE 35
                               f == Mul((1000 - Quot(dist * 1000, root)) * k, st.speed)
                           IN  [x |-> -Mul(Quot(dx * 1000, dist), f),
                                y |-> -Mul(Quot(dy * 1000, dist), f),
                                nan |-> FALSE]
                 ELSE NoForce

SpringForceDamped(v, st, p, b) ==
    [x |-> Mul(p.originX - p.x, 50) - Mul(p.vx, 500),
     y |-> Mul(p.originY - p.y, 50) - Mul(p.vy, 500), nan |-> FALSE]

\* the pull back to the origin
SpringForce(v, st, p, b) ==
    LET k == CASE v = "R" ->
                 \* returnStrength, boosted by brightness when density <= 6
                 Mul((IF st.flowFieldStrength > 2000 THEN 20
                      ELSE IF st.shape = "cross" THEN 10 ELSE 50)
                     + (IF st.density <= 6 THEN Quot(b * 50, 255) ELSE 0),
                     st.speed)
               [] v = "A" ->
                 \* snapForce = 0.06 * speed * (brightness / 255 + 0.2)
                 Mul(Mul(60, st.speed), Quot(b * 1000, 255) + 200)
               [] v = "U" ->
                 \* snapForce = 0.12 * speed * (brightness / 255 + 0.1)
                 Mul(Mul(120, st.speed), Quot(b * 1000, 255) + 100)
    IN  [x |-> Mul(p.originX - p.x, k), y |-> Mul(p.originY - p.y, k), nan |-> FALSE]

\* getBrightness(data, width, x, y): 0 when the byte index leaves the buffer
getBrightness(img, w, h, x, y) ==
    LET k == y * w + x
    IN  IF k < 0 \/ k >= w * h THEN 0 ELSE img[k]

\* sin(p.x * f + time) * cos(p.y * f + time), f = 1/div
Turbulence(p, div, t) ==
    Mul(SinFx(Quot(p.x, div) + t), CosFx(Quot(p.y, div) + t))

\* the flow-field increment; b is the particle's brightness this frame
FlowForce(v, st, p, img, w, h, b, t) ==
    LET px == PixelX(v, p, w)
        py == PixelY(v, p, h)
        k  == py * w + px
        ffs == st.flowFieldStrength
    IN  CASE v = "R" ->
             IF ffs > 0
             THEN LET bL == getBrightness(img, w, h, px - 2, py)
                      bR == getBrightness(img, w, h, px + 2, py)
                      bU == getBrightness(img, w, h, px, py - 2)
                      bD == getBrightness(img, w, h, px, py + 2)
                      gx == bR - bL
                      gy == bD - bU
                      g  == ISqrt(gx * gx + gy * gy)
                      \* angle = atan2(gy, gx) + PI/2
                      c0 == IF g = 0 THEN 0 ELSE Quot(-gy * 1000, g)
                      s0 == IF g = 0 THEN 1000 ELSE Quot(gx * 1000, g)
                      \* turbulentAngle = angle + noise * 0.5
                      th == Quot(Turbulence(p, 100, t), 2)
                      c  == Mul(c0, CosFx(th)) - Mul(s0, SinFx(th))
                      sn == Mul(s0, CosFx(th)) + Mul(c0, SinFx(th))
                  IN  [x |-> Mul(Mul(c, ffs), st.speed),
                       y |-> Mul(Mul(sn, ffs), st.speed), nan |-> FALSE]
             ELSE NoForce
          [] v = "A" ->
             IF ffs > 0 /\ px < w - 2 /\ py < h - 2
             THEN LET b_r == img[k + 1]
                      b_d == img[k + w]
                      stability == 1000 - Quot(b * 500, 255)
                      n  == Mul(Turbulence(p, 100, t), 3142)
                      nX == Mul(Mul(CosFx(n), st.noiseStrength), stability)
                      nY == Mul(Mul(SinFx(n), st.noiseStrength), stability)
                  IN  [x |-> Mul(Mul((b - b_d) * 180 + nX, ffs), 100),
                       y |-> Mul(Mul((b_r - b) * 180 + nY, ffs), 100), nan |-> FALSE]
             ELSE NoForce
          [] v = "U" ->
             IF ffs > 0 /\ px < w - 2 /\ py < h - 2
             THEN LET b_r == img[k + 1]
                      b_d == img[k + w]
                      n  == Mul(Turbulence(p, 200, t), 3142)
                      nX == Mul(CosFx(n), st.noiseStrength)
                      nY == Mul(SinFx(n), st.noiseStrength)
                  IN  [x |-> Mul(Mul((b - b_d) * 1000 + nX, ffs), 70),
                       y |-> Mul(Mul((b_r - b) * 1000 + nY, ffs), 70), nan |-> FALSE]
             ELSE NoForce

\* the cell (pixelIndex / 4) of the primary lookup of particle p
PrimaryRead(v, p, w, h) == PixelY(v, p, h) * w + PixelX(v, p, w)

\* the cells the flow field of a lit particle reads besides the primary one:
\* "R" through getBrightness, which reads only when its index test passes;
\* "A", "U" directly, at idx + 4 and idx + w * 4, under px < w - 2 && py < h - 2
NeighbourReads(v, st, p, img, w, h) ==
    LET px == PixelX(v, p, w)
        py == PixelY(v, p, h)
    IN  IF ~IsLit(v, p, img, w, h) \/ ~(st.flowFieldStrength > 0) THEN {}
        ELSE IF v = "R"
        THEN {c \in {py * w + (px - 2), py * w + (px + 2),
                     (py - 2) * w + px, (py + 2) * w + px} :
                ~(c < 0 \/ c >= w * h)}
        ELSE IF px < w - 2 /\ py < h - 2
             THEN {py * w + px + 1, py * w + px + w}
             ELSE {}

\* values of Math.random() - 0.5, in thousandths
RandSet == {-500, 499}

\* the jitter (Math.random() - 0.5) * noiseStrength per axis ("R" only)
UsesRandom(v, st) == v = "R" /\ st.noiseStrength > 0

NoiseForceUnscaled(v, st, r) ==
    [x |-> r[1], y |-> r[2], nan |-> FALSE]

NoiseForce(v, st, r) ==
    IF UsesRandom(v, st)
    THEN [x |-> Mul(r[1], st.noiseStrength), y |-> Mul(r[2], st.noiseStrength),
          nan |-> FALSE]
    ELSE NoForce

FrictionNone(st, vel) == vel

\* p.vx *= styleConfig.friction (likewise p.vy)
Friction(st, vel) == Mul(vel, st.friction)

IntegrateMovesOrigin(q, vx, vy) ==
    [q EXCEPT !.vx = vx, !.vy = vy, !.x = q.x + vx, !.y = q.y + vy,
              !.originX = q.x + vx, !.originY = q.y + vy]

\* p.x += p.vx; p.y += p.vy, with the velocity after friction
Integrate(q, vx, vy) ==
    [q EXCEPT !.vx = vx, !.vy = vy, !.x = q.x + vx, !.y = q.y + vy]

\* the lit branch: colour, size, forces, friction, integration
Lit(v, st, p, img, w, h, m, hand, t, r) ==
    LET b  == Brightness(v, p, img, w, h)
        fp == PointerForce(v, st, p, m, hand)
        ff == FlowForce(v, st, p, img, w, h, b, t)
        fs == SpringForce(v, st, p, b)
        fn == NoiseForce(v, st, r)
        vx == Friction(st, p.vx + fp.x + ff.x + fs.x + fn.x)
        vy == Friction(st, p.vy + fp.y + ff.y + fs.y + fn.y)
        q  == [p EXCEPT !.brightness = b,
                        !.color = mapBrightnessToColor(b, st.colors),
                        !.size = EasedSize(v, st, p, b)]
    IN  IF p.nan \/ fp.nan
        THEN [q EXCEPT !.nan = TRUE, !.x = 0, !.y = 0, !.vx = 0, !.vy = 0]
        ELSE Integrate(q, vx, vy)

\* one pass of the particle loop over particle p
UpdateParticle(v, st, p, img, w, h, m, hand, t, r) ==
    IF IsLit(v, p, img, w, h) THEN Lit(v, st, p, img, w, h, m, hand, t, r)
    ELSE Unlit(v, p)

\* for (let i = 0; i < particlesRef.current.length; i++): particles 1..n updated
RECURSIVE UpdateAll(_, _, _, _, _, _, _, _, _, _, _)
UpdateAll(v, st, ps, img, w, h, m, hand, t, rnd, n) ==
    IF n = 0 THEN <<>>
    ELSE Append(UpdateAll(v, st, ps, img, w, h, m, hand, t, rnd, n - 1),
                UpdateParticle(v, st, ps[n], img, w, h, m, hand, t, rnd[n]))

-----------------------------------------------------------------------------
(* The frame: spatial grid and connection pass ("R") *)

useConnectionsAlways(v, st) == v = "R"

\* const useConnections = styleConfig.connectionDistance > 0 ("A", "U": no grid)
useConnections(v, st) == v = "R" /\ st.connectionDistance > 0

\* Math.max(styleConfig.connectionDistance, 40), in thousandths
cellSize(st) == Max(st.connectionDistance, 40) * Milli

CellKeyOfOrigin(st, p) == <<p.originX \div cellSize(st), p.originY \div cellSize(st)>>

\* the key `${gx},${gy}` of the cell holding p (Math.floor of x, y / cellSize)
CellKey(st, p) == <<p.x \div cellSize(st), p.y \div cellSize(st)>>

OffsetsSameCell == {<<0, 0>>}

\* for ox in -1..1, for oy in -1..1: the 3 x 3 block of cells around a cell
Offsets == {<<ox, oy>> : ox \in {-1, 0, 1}, oy \in {-1, 0, 1}}

IndexCheckNotEqual(i, j) == i # j

\* if (p1Idx < p2Idx)
IndexCheck(i, j) == i < j

\* how often the pass reaches p2Idx = j while p1Idx = i: once per neighbour
\* key of i's cell that is the key of j's cell, when the index check admits it
Visits(st, ps, i, j) ==
    IF IndexCheck(i, j)
    THEN Cardinality({o \in Offsets :
            <<CellKey(st, ps[i])[1] + o[1], CellKey(st, ps[i])[2] + o[2]>>
                = CellKey(st, ps[j])})
    ELSE 0

WithinAlways(st, p1, p2) == TRUE

\* the bounding-box test passes and distSq < connDistSq
Within(st, p1, p2) ==
    LET dx == p1.x - p2.x
        dy == p1.y - p2.y
        D  == st.connectionDistance * Milli
    IN  /\ ~(Abs(dx) > D \/ Abs(dy) > D)
        /\ Dist(dx, dy) < D

\* alpha = 1 - Math.sqrt(distSq) / connectionDistance
LineAlpha(st, p1, p2) ==
    Milli - Quot(Dist(p1.x - p2.x, p1.y - p2.y), st.connectionDistance)

\* the pairs the pass tests, each with the number of times it does
Considered(st, ps, inGrid) ==
    {[i |-> i, j |-> j, n |-> Visits(st, ps, i, j)] :
        <<i, j>> \in {c \in inGrid \X inGrid : Visits(st, ps, c[1], c[2]) > 0}}

\* the lines stroked: ends, globalAlpha, and how many times
Lines(st, ps, inGrid) ==
    {[i |-> c.i, j |-> c.j, n |-> c.n, alpha |-> LineAlpha(st, ps[c.i], ps[c.j])] :
        c \in {d \in Considered(st, ps, inGrid) : Within(st, ps[d.i], ps[d.j])}}

-----------------------------------------------------------------------------
(* The frame callback *)

NoFrame ==
    [kind |-> "none", rdy |-> FALSE, sampled |-> FALSE, faded |-> FALSE,
     lit |-> {}, drawn |-> {},
     inGrid |-> {}, considered |-> {}, lines |-> {}]

EnabledIgnoresPause(v, rdy) ==
    /\ rdy
    /\ v = "U" => dimensions.width > 0 /\ dimensions.height > 0

\* the outer test of animate
Enabled(v, rdy) ==
    /\ ~isPaused
    /\ rdy
    /\ v = "U" => dimensions.width > 0 /\ dimensions.height > 0

BufW(v) == AnalysisDim(v, dimensions.width)

BufH(v) == AnalysisDim(v, dimensions.height)

\* time += 0.01 / 0.015 / 0.02, in thousandths
TimeStep(v) == CASE v = "R" -> 10 [] v = "A" -> 15 [] v = "U" -> 20

\* the frame callbacks scheduled after cancelAnimationFrame(animationFrameRef
\* .current): the ref holds the id of the request made last, so a scheduled
\* callback is the one cancelled; the id of a callback that has run cancels
\* nothing
cancelAnimationFrameNever(r) == r

cancelAnimationFrame(r) == IF r = "pending" THEN "dead" ELSE r

\* the frame callbacks scheduled after requestAnimationFrame(animate)
requestAnimationFrame(r) == IF r = "dead" THEN "pending" ELSE "doubled"

\* the render-loop effect re-runs: the cleanup of the previous run, then the
\* first request of the new one
EffectRestart(r) == requestAnimationFrame(cancelAnimationFrame(r))

\* the frame callback finds the outer test false: it only reschedules itself
TickSkipped(rdy) ==
    /\ raf = "pending"
    /\ ~Enabled(variant, rdy)
    /\ frame' = [NoFrame EXCEPT !.kind = "skipped", !.rdy = rdy]
    /\ lastOp' = [op |-> "tick", init |-> FALSE]
    /\ UNCHANGED <<controls, mounted, variant, styleConfig, resizeStyle, win, dimensions, particles,
                   mouse, isHandDetected, isPaused, time, raf, ticks>>

\* "R": the analysis buffer has no area: time has advanced, nothing else is done
TickEmpty ==
    /\ raf = "pending" /\ ticks < MaxTicks
    /\ Enabled(variant, TRUE) /\ variant = "R"
    /\ ~(BufW(variant) > 0 /\ BufH(variant) > 0)
    /\ time' = time + TimeStep(variant)
    /\ ticks' = ticks + 1
    /\ frame' = [NoFrame EXCEPT !.kind = "empty", !.rdy = TRUE]
    /\ lastOp' = [op |-> "tick", init |-> FALSE]
    /\ UNCHANGED <<controls, mounted, variant, styleConfig, resizeStyle, win, dimensions, particles,
                   mouse, isHandDetected, isPaused, raf>>

\* "A", "U": getImageData(0, 0, w, h) with w = 0 or h = 0 throws IndexSizeError;
\* the callback ends before requestAnimationFrame(animate)
TickThrows ==
    /\ raf = "pending" /\ ticks < MaxTicks
    /\ Enabled(variant, TRUE) /\ variant # "R"
    /\ ~(BufW(variant) > 0 /\ BufH(variant) > 0)
    /\ time' = time + TimeStep(variant)
    /\ ticks' = ticks + 1
    /\ raf' = "dead"
    /\ frame' = [NoFrame EXCEPT !.kind = "threw", !.rdy = TRUE]
    /\ lastOp' = [op |-> "tick", init |-> FALSE]
    /\ UNCHANGED <<controls, mounted, variant, styleConfig, resizeStyle, win, dimensions, particles,
                   mouse, isHandDetected, isPaused>>

\* the draws of Math.random the particle loop may make
\* (per particle <<x draw, y draw>>: one extreme on x and the other on y,
\* swapped on every second particle)
Draws(n) ==
    {[k \in 1..n |-> IF k % 2 = 1 THEN <<r, -r - 1>> ELSE <<-r - 1, r>>] :
        r \in RandSet}

\* no call of Math.random: the draws play no part
NoDraws(n) == [k \in 1..n |-> <<0, 0>>]

Randoms(v, st, n) == IF UsesRandom(v, st) THEN Draws(n) ELSE {NoDraws(n)}

\* a full frame over the video frame img
TickRuns(img, rnd) ==
    /\ raf = "pending" /\ ticks < MaxTicks
    /\ Enabled(variant, TRUE)
    /\ BufW(variant) > 0 /\ BufH(variant) > 0
    /\ LET v   == variant
           st  == styleConfig
           w   == BufW(v)
           h   == BufH(v)
           t   == time + TimeStep(v)
           lit == {k \in 1..Len(particles) : IsLit(v, particles[k], img, w, h)}
           ps  == UpdateAll(v, st, particles, img, w, h, mouse, isHandDetected,
                            t, rnd, Len(particles))
           ing == IF useConnections(v, st) THEN lit ELSE {}
       IN  /\ time' = t
           /\ particles' = ps
           /\ frame' = [kind |-> "ran", rdy |-> TRUE, sampled |-> TRUE,
                        faded |-> TRUE, lit |-> lit, drawn |-> lit, inGrid |-> ing,
                        considered |-> Considered(st, ps, ing),
                        lines |-> Lines(st, ps, ing)]
    /\ ticks' = ticks + 1
    /\ lastOp' = [op |-> "tick", init |-> FALSE]
    /\ UNCHANGED <<controls, mounted, variant, styleConfig, resizeStyle, win, dimensions, mouse,
                   isHandDetected, isPaused, raf>>

\* the frame callback; rdy: video.readyState passes the renderer's test
Tick ==
    \/ \E rdy \in BOOLEAN : TickSkipped(rdy)
    \/ TickEmpty
    \/ TickThrows
    \/ \E img \in Frames(BufW(variant), BufH(variant)) :
         \E rnd \in Randoms(variant, styleConfig, Len(particles)) : TickRuns(img, rnd)

-----------------------------------------------------------------------------
(* State machine *)

Init ==
    /\ mounted = TRUE
    /\ prompt = <<>> /\ isGenerating = FALSE /\ requests = <<>>
    /\ variant \in Variants
    /\ styleConfig \in Styles
    /\ resizeStyle = styleConfig
    /\ win \in WinSizes
    /\ dimensions = ResizedDimensions(variant, win, [width |-> 0, height |-> 0])
    /\ particles = ResizedParticles(variant, styleConfig, win, <<>>)
    /\ mouse = [x |-> 0, y |-> 0, isActive |-> FALSE]
    /\ isHandDetected = FALSE
    /\ isPaused = FALSE
    /\ time = 0
    /\ raf = "pending"
    /\ frame = NoFrame
    /\ lastOp = [op |-> "env", init |-> ~ResizeRejected(variant, win)]
    /\ ticks = 0

\* the window's resize event: the registered handleResize runs
WindowResize(w) ==
    /\ mounted
    /\ win' = w
    /\ dimensions' = ResizedDimensions(variant, w, dimensions)
    /\ particles' = ResizedParticles(variant, resizeStyle, w, particles)
    \* setDimensions stores a new object: the render-loop effect restarts
    /\ time' = IF ResizeRejected(variant, w) THEN time ELSE 0
    /\ raf' = IF ResizeRejected(variant, w) THEN raf ELSE EffectRestart(raf)
    /\ frame' = NoFrame
    /\ lastOp' = [op |-> "env", init |-> ~ResizeRejected(variant, w)]
    /\ UNCHANGED <<controls, mounted, variant, styleConfig, resizeStyle, mouse, isHandDetected,
                   isPaused, ticks>>

\* the parent passes a new styleConfig: the render-loop effect restarts, and
\* the resize effect re-runs (calling handleResize) when density differs
StyleChanged(st) ==
    /\ styleConfig' = st
    /\ IF st.density # styleConfig.density
       THEN /\ resizeStyle' = st
            /\ dimensions' = ResizedDimensions(variant, win, dimensions)
            /\ particles' = ResizedParticles(variant, st, win, particles)
            /\ lastOp' = [op |-> "env", init |-> ~ResizeRejected(variant, win)]
       ELSE /\ UNCHANGED <<resizeStyle, dimensions, particles>>
            /\ lastOp' = [op |-> "env", init |-> FALSE]
    /\ time' = 0
    /\ raf' = EffectRestart(raf)
    /\ frame' = NoFrame
    /\ UNCHANGED <<mounted, variant, win, mouse, isHandDetected, isPaused, ticks>>

\* the parent passes another style as styleConfig (a preset or a slider of the
\* controls panel)
SetStyle(st) ==
    /\ mounted
    /\ st # styleConfig
    /\ StyleChanged(st)
    /\ UNCHANGED controls

\* the parent flips the isPaused prop: the render-loop effect restarts
SetPaused(b) ==
    /\ mounted
    /\ b # isPaused
    /\ isPaused' = b
    /\ time' = 0
    /\ raf' = EffectRestart(raf)
    /\ frame' = NoFrame
    /\ lastOp' = [op |-> "env", init |-> FALSE]
    /\ UNCHANGED <<controls, mounted, variant, styleConfig, resizeStyle, win, dimensions, particles,
                   mouse, isHandDetected, ticks>>

\* pointer positions an input source can report, in thousandths
PointerPositions == {<<0, 0>>}

handleMouseMoveUnguarded(pos) ==
    /\ mounted
    /\ mouse' = [x |-> pos[1], y |-> pos[2], isActive |-> TRUE]
    /\ frame' = NoFrame
    /\ lastOp' = [op |-> "env", init |-> FALSE]
    /\ UNCHANGED <<controls, mounted, variant, styleConfig, resizeStyle, win, dimensions, particles,
                   isHandDetected, isPaused, time, raf, ticks>>

\* onMouseMove / onTouchMove
handleMouseMove(pos) ==
    /\ mounted
    /\ mouse' = IF variant = "U" /\ isHandDetected THEN mouse
                ELSE [x |-> pos[1], y |-> pos[2], isActive |-> TRUE]
    /\ frame' = NoFrame
    /\ lastOp' = [op |-> "env", init |-> FALSE]
    /\ UNCHANGED <<controls, mounted, variant, styleConfig, resizeStyle, win, dimensions, particles,
                   isHandDetected, isPaused, time, raf, ticks>>

\* onMouseLeave / onTouchEnd
handleMouseLeave ==
    /\ mounted
    /\ mouse' = IF variant = "U" /\ isHandDetected THEN mouse
                ELSE [mouse EXCEPT !.isActive = FALSE]
    /\ frame' = NoFrame
    /\ lastOp' = [op |-> "env", init |-> FALSE]
    /\ UNCHANGED <<controls, mounted, variant, styleConfig, resizeStyle, win, dimensions, particles,
                   isHandDetected, isPaused, time, raf, ticks>>

\* onMouseEnter ("U" only): !isHandDetected && (mouseRef.current.isActive = true)
handleMouseEnter ==
    /\ mounted
    /\ variant = "U"
    /\ mouse' = IF isHandDetected THEN mouse ELSE [mouse EXCEPT !.isActive = TRUE]
    /\ frame' = NoFrame
    /\ lastOp' = [op |-> "env", init |-> FALSE]
    /\ UNCHANGED <<controls, mounted, variant, styleConfig, resizeStyle, win, dimensions, particles,
                   isHandDetected, isPaused, time, raf, ticks>>

\* index-finger positions the hand tracker can report, in thousandths
HandPositions == {<<60000, 12000>>}

HandSeenTorn(pos) ==
    /\ mounted
    /\ mouse' = [mouse EXCEPT !.x = pos[1], !.isActive = TRUE]
    /\ IF variant = "U" /\ ~isHandDetected
       THEN isHandDetected' = TRUE /\ time' = 0 /\ raf' = EffectRestart(raf)
       ELSE UNCHANGED <<isHandDetected, time, raf>>
    /\ frame' = NoFrame
    /\ lastOp' = [op |-> "env", init |-> FALSE]
    /\ UNCHANGED <<controls, mounted, variant, styleConfig, resizeStyle, win, dimensions, particles,
                   isPaused, ticks>>

\* hands.onResults with a hand: the index finger tip becomes the pointer; "U"
\* also sets isHandDetected, which restarts the render-loop effect
HandSeen(pos) ==
    /\ mounted
    /\ mouse' = [x |-> pos[1], y |-> pos[2], isActive |-> TRUE]
    /\ IF variant = "U" /\ ~isHandDetected
       THEN isHandDetected' = TRUE /\ time' = 0 /\ raf' = EffectRestart(raf)
       ELSE UNCHANGED <<isHandDetected, time, raf>>
    /\ frame' = NoFrame
    /\ lastOp' = [op |-> "env", init |-> FALSE]
    /\ UNCHANGED <<controls, mounted, variant, styleConfig, resizeStyle, win, dimensions, particles,
                   isPaused, ticks>>

\* isHandDetected as the onResults callback reads it: the value of the render
\* in which the tracker effect, of dependencies [], ran
HandDetectedInCallback == FALSE

\* hands.onResults without a hand: "U" clears isHandDetected if the callback
\* reads it as set, which restarts the render-loop effect; "R", "A": nothing
HandLost ==
    /\ mounted
    /\ IF variant = "U" /\ HandDetectedInCallback /\ isHandDetected
       THEN isHandDetected' = FALSE /\ time' = 0 /\ raf' = EffectRestart(raf)
       ELSE UNCHANGED <<isHandDetected, time, raf>>
    /\ frame' = NoFrame
    /\ lastOp' = [op |-> "nohand", init |-> FALSE]
    /\ UNCHANGED <<controls, mounted, variant, styleConfig, resizeStyle, win, dimensions, particles,
                   mouse, isPaused, ticks>>

\* the renderer unmounts: the cleanup of the render-loop effect runs, the
\* listeners are removed, and no effect runs again
Unmount ==
    /\ mounted
    /\ mounted' = FALSE
    /\ raf' = cancelAnimationFrame(raf)
    /\ frame' = NoFrame
    /\ lastOp' = [op |-> "unmount", init |-> FALSE]
    /\ UNCHANGED <<controls, variant, styleConfig, resizeStyle, win, dimensions, particles,
                   mouse, isHandDetected, isPaused, time, ticks>>

Next ==
    \/ \E w \in WinSizes : WindowResize(w)
    \/ \E st \in Styles : SetStyle(st)
    \/ \E b \in BOOLEAN : SetPaused(b)
    \/ \E pos \in PointerPositions : handleMouseMove(pos)
    \/ handleMouseLeave
    \/ handleMouseEnter
    \/ \E pos \in PointerPositions : HandSeen(pos)
    \/ Tick

Spec == Init /\ [][Next]_vars

-----------------------------------------------------------------------------
(* The renderer in the wide window: styles, pointer sources and frames *)

InitWide ==
    /\ mounted = TRUE
    /\ prompt = <<>> /\ isGenerating = FALSE /\ requests = <<>>
    /\ variant \in Variants
    /\ styleConfig \in WideStyles
    /\ resizeStyle = styleConfig
    /\ win = WideWin
    /\ dimensions = ResizedDimensions(variant, win, [width |-> 0, height |-> 0])
    /\ particles = ResizedParticles(variant, styleConfig, win, <<>>)
    /\ mouse = [x |-> 0, y |-> 0, isActive |-> FALSE]
    /\ isHandDetected = FALSE
    /\ isPaused = FALSE
    /\ time = 0
    /\ raf = "pending"
    /\ frame = NoFrame
    /\ lastOp = [op |-> "env", init |-> TRUE]
    /\ ticks = 0

\* the frames of the wide window: white, and lit in even columns only
WideFrames(w, h) ==
    {[k \in 0..(w * h - 1) |-> 255],
     [k \in 0..(w * h - 1) |-> IF (k % w) % 2 = 0 THEN 255 ELSE 0]}

\* the frame callback in the wide window, whose analysis buffer has area, with
\* the video ready and the renderer not paused
TickWide ==
    \E img \in WideFrames(BufW(variant), BufH(variant)) :
        \E rnd \in Randoms(variant, styleConfig, Len(particles)) : TickRuns(img, rnd)

NextWide ==
    \/ \E st \in WideStyles : SetStyle(st)
    \/ \E pos \in PointerPositions : handleMouseMove(pos)
    \/ handleMouseLeave
    \/ handleMouseEnter
    \/ \E pos \in HandPositions : HandSeen(pos)
    \/ TickWide

SpecWide == InitWide /\ [][NextWide]_vars

-----------------------------------------------------------------------------
(* The renderer with a single particle and the pointer at chosen distances *)

\* a window 160 wide holds pointer positions up to the force radii
LoneWin == <<160, 9>>

\* a style whose gap leaves one particle, at the origin of the window
Lone == [Swirl EXCEPT !.name = "Lone", !.density = 200, !.connectionDistance = 0]

\* pointer positions, in thousandths: on the particle's origin, 50 and 100
\* away, and 148.2 away (between 148 and the square root of 22000)
PointerSpots == {<<0, 0>>, <<30000, 40000>>, <<100000, 0>>, <<148200, 0>>}

\* uniform frames: dark, dim, half and full brightness
LoneFrames(w, h) == {[k \in 0..(w * h - 1) |-> b] : b \in {0, 10, 128, 255}}

InitLone ==
    /\ mounted = TRUE
    /\ prompt = <<>> /\ isGenerating = FALSE /\ requests = <<>>
    /\ variant \in Variants
    /\ styleConfig = Lone
    /\ resizeStyle = styleConfig
    /\ win = LoneWin
    /\ dimensions = ResizedDimensions(variant, win, [width |-> 0, height |-> 0])
    /\ particles = ResizedParticles(variant, styleConfig, win, <<>>)
    /\ mouse = [x |-> 0, y |-> 0, isActive |-> FALSE]
    /\ isHandDetected = FALSE
    /\ isPaused = FALSE
    /\ time = 0
    /\ raf = "pending"
    /\ frame = NoFrame
    /\ lastOp = [op |-> "env", init |-> TRUE]
    /\ ticks = 0

\* the frame callback with the video ready and the renderer not paused
TickLone ==
    \E img \in LoneFrames(BufW(variant), BufH(variant)) :
        \E rnd \in Randoms(variant, styleConfig, Len(particles)) : TickRuns(img, rnd)

NextLone ==
    \/ \E pos \in PointerSpots : handleMouseMove(pos)
    \/ handleMouseLeave
    \/ handleMouseEnter
    \/ \E pos \in PointerSpots : HandSeen(pos)
    \/ HandLost
    \/ TickLone

SpecLone == InitLone /\ [][NextLone]_vars

-----------------------------------------------------------------------------
(* The life of the render loop: effect restarts, frame callbacks, unmount *)

\* styles the parent switches between (of different density, so that a
\* switch also re-runs the resize effect)
LoopStyles == {Constellation, ZeroGap}

InitLoop ==
    /\ mounted = TRUE
    /\ prompt = <<>> /\ isGenerating = FALSE /\ requests = <<>>
    /\ variant \in Variants
    /\ styleConfig \in LoopStyles
    /\ resizeStyle = styleConfig
    /\ win \in WinSizes
    /\ dimensions = ResizedDimensions(variant, win, [width |-> 0, height |-> 0])
    /\ particles = ResizedParticles(variant, styleConfig, win, <<>>)
    /\ mouse = [x |-> 0, y |-> 0, isActive |-> FALSE]
    /\ isHandDetected = FALSE
    /\ isPaused = FALSE
    /\ time = 0
    /\ raf = "pending"
    /\ frame = NoFrame
    /\ lastOp = [op |-> "env", init |-> ~ResizeRejected(variant, win)]
    /\ ticks = 0

NextLoop ==
    \/ \E w \in WinSizes : WindowResize(w)
    \/ \E st \in LoopStyles : SetStyle(st)
    \/ \E b \in BOOLEAN : SetPaused(b)
    \/ \E pos \in PointerPositions : HandSeen(pos)
    \/ Tick
    \/ Unmount

SpecLoop == InitLoop /\ [][NextLoop]_vars

-----------------------------------------------------------------------------
(* The controls panel: the prompt, Generate, and the style service *)

\* the largest number of generateArtStyle calls in flight
MaxRequests == 2

\* texts the prompt input can hold
Prompts == {<<>>, <<" ">>, <<"r">>, <<" ", "r">>}

RECURSIVE TrimStart(_)
TrimStart(s) == IF s # <<>> /\ Head(s) = " " THEN TrimStart(Tail(s)) ELSE s

RECURSIVE TrimEnd(_)
TrimEnd(s) ==
    IF s # <<>> /\ s[Len(s)] = " " THEN TrimEnd(SubSeq(s, 1, Len(s) - 1)) ELSE s

\* String.prototype.trim
trim(s) == TrimEnd(TrimStart(s))

\* the fallback style of the service
ErrorGlitch ==
    [name |-> "Error Glitch", colors |-> <<"#ff0000", "#ffffff", "#000000">>,
     particleSizeMin |-> 2000, particleSizeMax |-> 10000, density |-> 10,
     speed |-> 2000, friction |-> 900, shape |-> "square",
     connectionDistance |-> 0, noiseStrength |-> 5000, flowFieldStrength |-> 0]

\* the styles the promise of generateArtStyle(p) can resolve with: one built
\* from the answer, or the fallback (the service catches every error)
generateArtStyle(p) == {CyberGrid, ErrorGlitch}

\* everything of the renderer
renderer == <<mounted, variant, styleConfig, resizeStyle, win, dimensions,
              particles, mouse, isHandDetected, isPaused, time, raf, frame,
              lastOp, ticks>>

\* onChange of the prompt input
setPrompt(s) ==
    /\ mounted
    /\ s # prompt
    /\ prompt' = s
    /\ UNCHANGED <<isGenerating, requests, renderer>>

\* handleGenerate up to its await
handleGenerate ==
    /\ Len(requests) < MaxRequests
    /\ IF trim(prompt) = <<>>
       THEN UNCHANGED <<isGenerating, requests>>
       ELSE /\ isGenerating' = TRUE
            /\ requests' = Append(requests, prompt)
    /\ UNCHANGED <<prompt, renderer>>

\* onClick of the Generate button, disabled while isGenerating
ClickGenerate == mounted /\ ~isGenerating /\ handleGenerate

\* onKeyDown of the prompt input with key Enter
PressEnter == mounted /\ handleGenerate

\* handleGenerate from its await on: the promise of request i resolves with st
Resolved(i, st) ==
    /\ StyleChanged(st)
    /\ prompt' = <<>>
    /\ isGenerating' = FALSE
    /\ requests' = SubSeq(requests, 1, i - 1) \o SubSeq(requests, i + 1, Len(requests))

\* the promise of one of the calls in flight resolves
Settle ==
    \E i \in 1..Len(requests) :
        \E st \in generateArtStyle(requests[i]) : Resolved(i, st)

InitControls ==
    /\ mounted = TRUE
    /\ prompt = <<>> /\ isGenerating = FALSE /\ requests = <<>>
    /\ variant \in Variants
    /\ styleConfig = Constellation
    /\ resizeStyle = styleConfig
    /\ win = <<14, 9>>
    /\ dimensions = ResizedDimensions(variant, win, [width |-> 0, height |-> 0])
    /\ particles = ResizedParticles(variant, styleConfig, win, <<>>)
    /\ mouse = [x |-> 0, y |-> 0, isActive |-> FALSE]
    /\ isHandDetected = FALSE
    /\ isPaused = FALSE
    /\ time = 0
    /\ raf = "pending"
    /\ frame = NoFrame
    /\ lastOp = [op |-> "env", init |-> TRUE]
    /\ ticks = 0

NextControls ==
    \/ \E s \in Prompts : setPrompt(s)
    \/ ClickGenerate
    \/ PressEnter
    \/ Settle
    \/ \E st \in LoopStyles : SetStyle(st)

SpecControls == InitControls /\ [][NextControls]_vars

-----------------------------------------------------------------------------
(* The colour mapper on its own: one particle, coloured for a grey level *)

InitColor ==
    /\ mounted = TRUE
    /\ prompt = <<>> /\ isGenerating = FALSE /\ requests = <<>>
    /\ variant = "R"
    /\ styleConfig \in {[Swirl EXCEPT !.colors = pal] : pal \in Palettes}
    /\ resizeStyle = styleConfig
    /\ win = <<9, 9>>
    /\ dimensions = [width |-> 9, height |-> 9]
    /\ particles = <<NewParticle(0, 0, styleConfig)>>
    /\ mouse = [x |-> 0, y |-> 0, isActive |-> FALSE]
    /\ isHandDetected = FALSE
    /\ isPaused = FALSE
    /\ time = 0
    /\ raf = "pending"
    /\ frame = NoFrame
    /\ lastOp = [op |-> "env", init |-> TRUE]
    /\ ticks = 0

\* p.brightness = brightness; p.color = mapBrightnessToColor(brightness, colors)
Colour(b) ==
    /\ particles' = [particles EXCEPT
                        ![1].brightness = b,
                        ![1].color = mapBrightnessToColor(b, styleConfig.colors)]
    /\ lastOp' = [op |-> "colour", init |-> FALSE]
    /\ UNCHANGED <<controls, mounted, variant, styleConfig, resizeStyle, win, dimensions, mouse,
                   isHandDetected, isPaused, time, raf, frame, ticks>>

NextColor == \E b \in Greys : Colour(b)

SpecColor == InitColor /\ [][NextColor]_vars

-----------------------------------------------------------------------------
(* Properties of grid initialisation *)

\* the handler that ran last called initParticles(W, H) with W, H >= 1
GridJustBuilt == lastOp.init /\ win[1] >= 1 /\ win[2] >= 1

\* the lattice points (i g, j g) inside a W x H viewport
LatticePoints(W, H, g) ==
    {pt \in (0..(W - 1)) \X (0..(H - 1)) : pt[1] % g = 0 /\ pt[2] % g = 0}

\* particle q is as initParticles creates it at pixel pt for minimum size sz
FreshAt(q, pt, sz) ==
    /\ q.x = pt[1] * Milli /\ q.y = pt[2] * Milli
    /\ q.originX = q.x /\ q.originY = q.y
    /\ q.vx = 0 /\ q.vy = 0
    /\ q.size = sz /\ q.brightness = 0

\* C1 as stated: for W, H >= 1 and gap g > 0 the grid initParticles(W, H)
\* produces holds exactly floor(W / g) * floor(H / g) particles.
C1_FloorCount ==
    (GridJustBuilt /\ Gap(variant, resizeStyle) > 0) =>
        Len(particles) = (win[1] \div Gap(variant, resizeStyle))
                            * (win[2] \div Gap(variant, resizeStyle))

\* C1 amended: for W, H >= 1 and effective gap g > 0 the grid holds exactly
\* ceil(W / g) * ceil(H / g) particles, one with its origin at every lattice
\* point (i g, j g) that lies inside the viewport (i g < W, j g < H).
C1_CeilCount ==
    (GridJustBuilt /\ Gap(variant, resizeStyle) > 0) =>
        LET g   == Gap(variant, resizeStyle)
            pts == LatticePoints(win[1], win[2], g)
        IN  /\ Len(particles) = ((win[1] + g - 1) \div g) * ((win[2] + g - 1) \div g)
            /\ Len(particles) = Cardinality(pts)
            /\ {<<particles[k].originX, particles[k].originY>> : k \in DOMAIN particles}
                   = {<<pt[1] * Milli, pt[2] * Milli>> : pt \in pts}

\* a 14 x 9 viewport with gap 4: 4 columns by 3 rows, where the floors give 3 by 2
C1_Witness ==
    /\ GridJustBuilt /\ win = <<14, 9>>
    /\ Gap(variant, resizeStyle) = 4
    /\ Len(particles) = 12

\* the grid initParticles(W, H) is to leave for gap g and minimum size sz
ExpectedGrid(W, H, g, sz, ps) ==
    IF g <= 0 \/ W <= 0 \/ H <= 0 THEN ps = <<>>
    ELSE /\ Len(ps) = Cardinality(LatticePoints(W, H, g))
         /\ \A pt \in LatticePoints(W, H, g) :
                \E k \in DOMAIN ps : FreshAt(ps[k], pt, sz)
         /\ \A k \in DOMAIN ps :
                \E pt \in LatticePoints(W, H, g) : FreshAt(ps[k], pt, sz)

\* C8 as stated: after every call of initParticles(W, H), a resize to a zero
\* dimension included, the array depends only on (W, H, gap, configured minimum
\* size): every particle is at its origin, at rest, of the configured minimum
\* size and of brightness 0, and nothing of the previous grid is left.
C8_InitReplacesGrid ==
    lastOp.init =>
        ExpectedGrid(win[1], win[2], Gap(variant, styleConfig),
                     styleConfig.particleSizeMin, particles)

\* C9 as stated: with a configured gap (density) <= 0, initialisation leaves
\* the particle grid empty.
C9_EmptyAsStated ==
    (lastOp.init /\ resizeStyle.density <= 0) => particles = <<>>

\* C9 amended: with a configured gap (density) <= 0 initialisation ends
\* without an error; Renderer.tsx leaves the grid empty and its later ticks run
\* (it never throws, its loop stays scheduled); part_000 clamps the gap to 3
\* and the unified renderer to 4, and they fill the grid at that gap.
C9_NonPositiveGap ==
    /\ (lastOp.init /\ resizeStyle.density <= 0) =>
          CASE variant = "R" -> particles = <<>>
            [] variant = "A" ->
                 ExpectedGrid(win[1], win[2], 3, resizeStyle.particleSizeMin, particles)
            [] variant = "U" ->
                 (win[1] >= 1 /\ win[2] >= 1) =>
                 ExpectedGrid(win[1], win[2], 4, resizeStyle.particleSizeMin, particles)
    /\ variant = "R" => (raf = "pending" /\ frame.kind # "threw")

\* Renderer.tsx has run two full frames over the grid a gap of 0 left empty
C9_Witness ==
    /\ variant = "R" /\ styleConfig.density <= 0 /\ resizeStyle = styleConfig
    /\ particles = <<>>
    /\ frame.kind = "ran" /\ ticks = 2 /\ raf = "pending"

-----------------------------------------------------------------------------
(* Properties of the particle loop *)

\* the particles the frame just run found unlit
UnlitNow == DOMAIN particles \ frame'.lit

\* C2: between two reinitialisations no tick and no pointer event changes a
\* particle's originX / originY, the length of the array, or which particle
\* sits at which index.
C2_OriginsFixed ==
    [][~lastOp'.init =>
          /\ Len(particles') = Len(particles)
          /\ \A k \in DOMAIN particles :
                /\ particles'[k].originX = particles[k].originX
                /\ particles'[k].originY = particles[k].originY]_vars

\* after two frames a particle is away from its origin
C2_Witness ==
    /\ lastOp.op = "tick" /\ ticks = 2
    /\ \E k \in DOMAIN particles :
          /\ ~particles[k].nan
          /\ particles[k].x # particles[k].originX
          /\ particles[k].originX # 0

\* C3 as stated: on an executed tick a particle found unlit does not grow, and
\* it shrinks when its size is above the floor 0.1.
C3_UnlitSizeDecays ==
    [][frame'.kind = "ran" =>
          \A k \in UnlitNow :
              /\ particles'[k].size <= particles[k].size
              /\ particles[k].size > 100 => particles'[k].size < particles[k].size]_vars

\* C4: a tick leaves the position, velocity, colour and stored brightness of
\* a particle it finds unlit as they were, stamps no shape for it, puts it in
\* no grid cell and draws no line to it; the array keeps its length.
C4_UnlitUntouched ==
    [][frame'.kind = "ran" =>
          /\ Len(particles') = Len(particles)
          /\ \A k \in UnlitNow :
                /\ particles'[k].x = particles[k].x
                /\ particles'[k].y = particles[k].y
                /\ particles'[k].vx = particles[k].vx
                /\ particles'[k].vy = particles[k].vy
                /\ particles'[k].color = particles[k].color
                /\ particles'[k].brightness = particles[k].brightness
                /\ k \notin frame'.drawn
                /\ k \notin frame'.inGrid
                /\ \A l \in frame'.lines : l.i # k /\ l.j # k]_vars

\* a particle lit and pushed by one frame is unlit in the next: it keeps its
\* offset, its velocity and its brightness
C4_Witness ==
    /\ frame.kind = "ran"
    /\ \E k \in DOMAIN particles \ frame.lit :
          /\ particles[k].brightness > 0
          /\ particles[k].x # particles[k].originX
          /\ particles[k].vx # 0

-----------------------------------------------------------------------------
(* Properties of the connection pass *)

\* the cells of p and q are the same or adjacent
NeighbourCells(st, p, q) ==
    /\ Abs(CellKey(st, p)[1] - CellKey(st, q)[1]) <= 1
    /\ Abs(CellKey(st, p)[2] - CellKey(st, q)[2]) <= 1

\* C5: in one connection pass no particle is paired with itself and no
\* unordered pair is tested more than once (each pair of the same or adjacent
\* cells exactly once), so a pair gets at most one line and no particle a line
\* to itself.
C5_PairsOnce ==
    frame.kind = "ran" =>
        /\ \A c \in frame.considered :
              /\ c.i # c.j
              /\ c.n = 1
              /\ ~\E d \in frame.considered : d.i = c.j /\ d.j = c.i
        /\ \A i, j \in frame.inGrid :
              (i < j /\ NeighbourCells(styleConfig, particles[i], particles[j])) =>
                  Cardinality({c \in frame.considered :
                                  {c.i, c.j} = {i, j}}) = 1
        /\ \A l \in frame.lines :
              /\ l.i # l.j
              /\ l.n = 1
              /\ Cardinality({m \in frame.lines : {m.i, m.j} = {l.i, l.j}}) = 1

\* a pass over at least four particles in the grid that draws lines
C5_Witness ==
    /\ frame.kind = "ran"
    /\ Cardinality(frame.inGrid) >= 4
    /\ Cardinality(frame.considered) >= 6
    /\ Cardinality(frame.lines) >= 2

\* C6: with connectionDistance = 0 a tick draws no line and puts no particle
\* in the spatial grid.
C6_NoConnections ==
    (frame.kind = "ran" /\ styleConfig.connectionDistance = 0) =>
        /\ frame.lines = {}
        /\ frame.inGrid = {}
        /\ frame.considered = {}

\* Renderer.tsx has run a frame with several lit particles and distance 0
C6_Witness ==
    /\ variant = "R" /\ frame.kind = "ran"
    /\ styleConfig.connectionDistance = 0
    /\ Cardinality(frame.lit) >= 2

\* the distance between particles i and j, in thousandths
Apart(i, j) ==
    Dist(particles[i].x - particles[j].x, particles[i].y - particles[j].y)

\* C7: for connectionDistance D > 0 a line between particles at distance d
\* has alpha = 1 - d / D (here to within one thousandth), every line drawn has
\* alpha in [0, 1], and no line is drawn between particles with d > D.
C7_LineAlpha ==
    (frame.kind = "ran" /\ styleConfig.connectionDistance > 0) =>
        LET D == styleConfig.connectionDistance
        IN  /\ \A l \in frame.lines :
                  /\ 0 <= l.alpha /\ l.alpha <= Milli
                  /\ Abs(l.alpha * D + Apart(l.i, l.j) - Milli * D) < D
            /\ \A i, j \in frame.inGrid :
                  Apart(i, j) > D * Milli =>
                      ~\E l \in frame.lines : l.i = i /\ l.j = j

\* a frame with a line of alpha strictly between 0 and 1 and a tested pair
\* too far apart for a line
C7_Witness ==
    /\ frame.kind = "ran" /\ styleConfig.connectionDistance > 0
    /\ \E l \in frame.lines : 0 < l.alpha /\ l.alpha < Milli
    /\ \E c \in frame.considered :
          /\ Apart(c.i, c.j) > styleConfig.connectionDistance * Milli
          /\ ~\E l \in frame.lines : l.i = c.i /\ l.j = c.j

-----------------------------------------------------------------------------
(* Properties of skipped ticks *)

\* the frame callback that just ran met a condition under which a tick is to
\* be skipped: paused, video not ready, or an analysis buffer without area
SkipCondition ==
    /\ lastOp'.op = "tick"
    /\ \/ isPaused
       \/ ~frame'.rdy
       \/ BufW(variant) < 1
       \/ BufH(variant) < 1

\* C10 as stated: on a tick that meets a skip condition no particle field
\* changes, the video is not sampled and time does not advance.
C10_SkipAsStated ==
    [][SkipCondition =>
          /\ particles' = particles
          /\ ~frame'.sampled
          /\ time' = time]_vars

\* C10 amended: on a tick that meets a skip condition no particle field
\* changes and the video is not sampled.  Time stands still when the tick is
\* skipped for the pause flag, for a video that is not ready or (unified
\* renderer) for a viewport dimension <= 0.  When only an analysis-buffer
\* dimension is < 1, Renderer.tsx skips the frame after advancing time by
\* 0.01, and part_000 and the unified renderer do not skip it: they advance
\* time, throw in getImageData and schedule no further frame.
C10_SkipAmended ==
    [][SkipCondition =>
          /\ particles' = particles
          /\ ~frame'.sampled
          /\ IF isPaused \/ ~frame'.rdy
                \/ (variant = "U" /\ (dimensions.width <= 0 \/ dimensions.height <= 0))
             THEN time' = time /\ raf' = raf
             ELSE CASE variant = "R" -> time' = time + 10 /\ raf' = raf
                    [] variant = "A" -> time' = time + 15 /\ raf' = "dead"
                    [] variant = "U" -> time' = time + 20 /\ raf' = "dead"]_vars

\* Renderer.tsx has skipped two frames over a 3 x 9 viewport, whose analysis
\* buffer is 0 wide: the particles are untouched, time is 0.02
C10_Witness ==
    /\ variant = "R" /\ frame.kind = "empty" /\ ~frame.sampled
    /\ dimensions.width = 3
    /\ Len(particles) > 0
    /\ time = 20

-----------------------------------------------------------------------------
(* Properties of the frame loop *)

\* C11 as stated: a frame callback that skips the physics because the video
\* is not ready or the analysis buffer has no area still fills the canvas with
\* the trail-fade rectangle.
C11_FadeOnSkip ==
    (\/ frame.kind = "skipped" /\ ~frame.rdy
     \/ frame.kind = "empty") => frame.faded

\* C12 as stated: every frame callback ends by requesting the next one, so
\* while the renderer is mounted a frame callback is always scheduled.
C12_AlwaysScheduled == raf = "pending"

-----------------------------------------------------------------------------
(* Properties of the brightness lookup *)

\* floor(c * scale) clamped to 0 .. n - 1, for a coordinate c in thousandths
ClampedCell(c, pct, n) ==
    LET cell == (c * pct) \div 100000
    IN  IF cell < 0 THEN 0 ELSE IF cell > n - 1 THEN n - 1 ELSE cell

\* C13: with an analysis buffer of w, h >= 1 cells, whatever frame it holds
\* and wherever the particles have drifted, every read of a tick - the primary
\* lookup and the neighbour reads - is at a byte index in [0, 4 w h), and the
\* primary lookup reads the cell (clamp(floor(x scale), 0, w - 1),
\* clamp(floor(y scale), 0, h - 1)) of the sampled coordinate.
C13_ReadsInBuffer ==
    (BufW(variant) >= 1 /\ BufH(variant) >= 1) =>
        LET w == BufW(variant)
            h == BufH(variant)
        IN  /\ \A k \in DOMAIN particles :
                  LET p == particles[k]
                      first == PrimaryRead(variant, p, w, h)
                  IN  /\ first = ClampedCell(SampleY(variant, p), ScalePct(variant), h) * w
                                   + ClampedCell(SampleX(variant, p), ScalePct(variant), w)
                      /\ 0 <= 4 * first /\ 4 * first + 2 < 4 * w * h
            /\ \A img \in WideFrames(w, h) : \A k \in DOMAIN particles :
                  \A c \in NeighbourReads(variant, styleConfig, particles[k], img, w, h) :
                      0 <= 4 * c /\ 4 * c + 2 < 4 * w * h

\* Renderer.tsx has run a frame with one particle left of the viewport and one
\* right of it, and a lit particle's flow field has neighbours to read
C13_Witness ==
    /\ variant = "R" /\ frame.kind = "ran"
    /\ \E k \in DOMAIN particles : particles[k].x < 0
    /\ \E k \in DOMAIN particles : particles[k].x > win[1] * Milli
    /\ \E k \in DOMAIN particles :
          \E img \in WideFrames(BufW(variant), BufH(variant)) :
              NeighbourReads(variant, styleConfig, particles[k], img,
                             BufW(variant), BufH(variant)) # {}

-----------------------------------------------------------------------------
(* Properties of an invalid style *)

\* the style of the frame has no colours or a least size above the greatest
InvalidStyle ==
    \/ Len(styleConfig.colors) = 0
    \/ styleConfig.particleSizeMin > styleConfig.particleSizeMax

\* C14 as stated: a frame run under an invalid style assigns no particle an
\* undefined colour, and leaves the size of every particle it colours and
\* sizes (the lit ones) within the range spanned by the two configured bounds
\* and the particle's previous size.
C14_InvalidStyleClamped ==
    [][(frame'.kind = "ran" /\ InvalidStyle) =>
          \A k \in frame'.lit :
              LET lo == Min(particles[k].size,
                            Min(styleConfig.particleSizeMin, styleConfig.particleSizeMax))
                  hi == Max(particles[k].size,
                            Max(styleConfig.particleSizeMin, styleConfig.particleSizeMax))
              IN  /\ lo <= particles'[k].size /\ particles'[k].size <= hi
                  /\ particles'[k].color # "undefined"]_vars

-----------------------------------------------------------------------------
(* Properties of the forces *)

\* C15: with noiseStrength = 0 a frame is a function of the particles, the
\* brightness field, the pointer state, the time and the style: whatever
\* Math.random would return, the particles after the frame are the same.
C15_NoiseFreeDeterministic ==
    [][(frame'.kind = "ran" /\ styleConfig.noiseStrength = 0) =>
          \E img \in WideFrames(BufW(variant), BufH(variant)) :
              \A rnd \in Draws(Len(particles)) :
                  particles' = UpdateAll(variant, styleConfig, particles, img,
                                         BufW(variant), BufH(variant), mouse,
                                         isHandDetected, time', rnd, Len(particles))]_vars

\* Renderer.tsx has run two noise-free frames and the flow field has given a
\* particle a velocity
C15_Witness ==
    /\ variant = "R" /\ frame.kind = "ran" /\ ticks = 2
    /\ styleConfig.noiseStrength = 0 /\ styleConfig.flowFieldStrength > 0
    /\ \E k \in frame.lit : particles[k].vx # 0 \/ particles[k].vy # 0

\* the sum of the force contributions a frame over img gives particle k, were
\* it lit
NetForce(k, img) ==
    LET v  == variant
        st == styleConfig
        p  == particles[k]
        w  == BufW(v)
        h  == BufH(v)
        b  == Brightness(v, p, img, w, h)
        fp == PointerForce(v, st, p, mouse, isHandDetected)
        ff == FlowForce(v, st, p, img, w, h, b, time')
        fs == SpringForce(v, st, p, b)
    IN  [x |-> fp.x + ff.x + fs.x, y |-> fp.y + ff.y + fs.y,
         nan |-> p.nan \/ fp.nan]

\* the frame just run was over img
FrameWas(img) ==
    /\ frame'.kind = "ran"
    /\ particles' = UpdateAll(variant, styleConfig, particles, img, BufW(variant),
                              BufH(variant), mouse, isHandDetected, time',
                              NoDraws(Len(particles)), Len(particles))

\* particle k received no force contribution in the frame over img: it was
\* unlit, or its contributions were all zero
Unforced(k, img) ==
    \/ k \notin frame'.lit
    \/ LET f == NetForce(k, img) IN ~f.nan /\ f.x = 0 /\ f.y = 0

\* the particle has a velocity
Moving(p) == p.vx # 0 \/ p.vy # 0

\* q is slower than p: no component has grown and one has shrunk, so the
\* magnitude of q's velocity is below that of p's
Slower(q, p) ==
    /\ Abs(q.vx) <= Abs(p.vx) /\ Abs(q.vy) <= Abs(p.vy)
    /\ Abs(q.vx) < Abs(p.vx) \/ Abs(q.vy) < Abs(p.vy)

\* C16 as stated: with friction in (0, 1), a frame that gives a particle no
\* force contribution strictly decreases its velocity magnitude when that is
\* not zero.
C16_FrictionAsStated ==
    [][\A img \in WideFrames(BufW(variant), BufH(variant)) :
          (FrameWas(img) /\ 0 < styleConfig.friction /\ styleConfig.friction < Milli) =>
              \A k \in DOMAIN particles :
                  (Unforced(k, img) /\ Moving(particles[k])) =>
                      Slower(particles'[k], particles[k])]_vars

\* C16 amended: a lit particle with no force contribution has each velocity
\* component multiplied by the friction, so a nonzero magnitude strictly
\* decreases; an unlit particle keeps its velocity as it is.
C16_FrictionOnLit ==
    [][\A img \in WideFrames(BufW(variant), BufH(variant)) :
          (FrameWas(img) /\ 0 < styleConfig.friction /\ styleConfig.friction < Milli) =>
              \A k \in DOMAIN particles :
                  IF k \in frame'.lit
                  THEN (Unforced(k, img) =>
                          /\ particles'[k].vx = Mul(particles[k].vx, styleConfig.friction)
                          /\ particles'[k].vy = Mul(particles[k].vy, styleConfig.friction)
                          /\ Moving(particles[k]) => Slower(particles'[k], particles[k])
                          /\ ~Moving(particles[k]) => ~Moving(particles'[k]))
                  ELSE /\ particles'[k].vx = particles[k].vx
                       /\ particles'[k].vy = particles[k].vy]_vars

\* a frame under the style without forces has slowed a lit particle that is
\* still moving, and has passed over an unlit one that keeps its velocity
C16_Witness ==
    /\ frame.kind = "ran" /\ ticks = 2
    /\ styleConfig.speed = 0 /\ styleConfig.flowFieldStrength = 0
    /\ \E k \in frame.lit : ~particles[k].nan /\ Moving(particles[k])
    /\ \E k \in DOMAIN particles \ frame.lit : Moving(particles[k])

-----------------------------------------------------------------------------
(* Properties of the pointer *)

\* the positions a single write can leave in mouseRef: the mount value, a
\* mouse or touch position, a finger-tip position
PointerWrites == {<<0, 0>>} \cup PointerPositions \cup HandPositions

\* C17: a frame leaves the pointer as it found it and updates every particle
\* against that one pointer state, and the pointer's x and y are at all times
\* those of one write, never the x of one write with the y of another.
C17_PointerNotTorn ==
    [][/\ <<mouse'.x, mouse'.y>> \in PointerWrites
       /\ lastOp'.op = "tick" => mouse' = mouse
       /\ frame'.kind = "ran" =>
             \E img \in WideFrames(BufW(variant), BufH(variant)) :
                 \A k \in DOMAIN particles :
                     particles'[k] =
                         UpdateParticle(variant, styleConfig, particles[k], img,
                                        BufW(variant), BufH(variant), mouse',
                                        isHandDetected', time', <<0, 0>>)]_vars

\* a frame has run with the pointer at the finger tip, after a pointer event
\* and a frame before it
C17_Witness ==
    /\ frame.kind = "ran" /\ ticks = 2
    /\ mouse.isActive /\ <<mouse.x, mouse.y>> \in HandPositions
    /\ \E k \in frame.lit : particles[k].x # particles[k].originX

\* C18: in part_002, while isHandDetected is set, a mouse move, enter or leave
\* leaves the pointer (x, y, isActive) as it was: a step that changes the
\* pointer then is a report of the hand tracker, which writes a finger-tip
\* position and sets isActive.
C18_ManualSuppressed ==
    [][(variant = "U" /\ isHandDetected /\ mouse' # mouse) =>
          /\ <<mouse'.x, mouse'.y>> \in HandPositions
          /\ mouse'.isActive
          /\ particles' = particles /\ ticks' = ticks]_vars

\* part_002 with the hand detected and the pointer at the finger tip, two
\* frames on
C18_Witness ==
    /\ variant = "U" /\ isHandDetected
    /\ <<mouse.x, mouse.y>> \in HandPositions /\ mouse.isActive
    /\ ticks = 2

-----------------------------------------------------------------------------
(* Properties of the sampling site *)

\* particle p back at its origin
AtOrigin(p) == [p EXCEPT !.x = p.originX, !.y = p.originY]

\* C19 as stated: the brightness a frame uses for a particle is the value of
\* the frame's field at the analysis cell of the particle's origin, wherever
\* the particle has drifted: that value decides whether the particle is lit
\* and is the brightness stored in it.
C19_SampledAtOrigin ==
    [][frame'.kind = "ran" =>
          \E img \in WideFrames(BufW(variant), BufH(variant)) :
              \A k \in DOMAIN particles :
                  LET home == AtOrigin(particles[k])
                  IN  /\ k \in frame'.lit <=>
                            IsLit(variant, home, img, BufW(variant), BufH(variant))
                      /\ k \in frame'.lit =>
                            particles'[k].brightness =
                                Brightness(variant, home, img, BufW(variant),
                                           BufH(variant))]_vars

-----------------------------------------------------------------------------
(* The connection pass against the check of all pairs *)

\* the pairs of ends of the lines the frame stroked
LinePairs == {<<l.i, l.j>> : l \in frame.lines}

\* the pairs i < j of lit particles less than the connection distance apart
ClosePairs ==
    {c \in frame.lit \X frame.lit :
        /\ c[1] < c[2]
        /\ Apart(c[1], c[2]) < styleConfig.connectionDistance * Milli}

\* C20: with connectionDistance D > 0 the pass over the spatial grid strokes a
\* line for exactly the pairs of lit particles less than D apart, the pairs a
\* test of every pair against D finds, wherever the particles are; and the
\* cell size is at least D.
C20_GridFindsClosePairs ==
    (frame.kind = "ran" /\ variant = "R" /\ styleConfig.connectionDistance > 0) =>
        /\ cellSize(styleConfig) >= styleConfig.connectionDistance * Milli
        /\ LinePairs = ClosePairs

\* a pass that joined a particle left of the viewport (in a cell of negative
\* key) to one in another cell, and left a lit pair too far apart unjoined
C20_Witness ==
    /\ frame.kind = "ran" /\ variant = "R" /\ styleConfig.connectionDistance > 0
    /\ \E c \in LinePairs :
          /\ particles[c[1]].x < 0
          /\ CellKey(styleConfig, particles[c[1]]) # CellKey(styleConfig, particles[c[2]])
    /\ \E c \in frame.lit \X frame.lit : c[1] < c[2] /\ c \notin LinePairs

-----------------------------------------------------------------------------
(* Properties of the spatial grid *)

\* the cell of particle k's position after the frame, for cells of side
\* max(connectionDistance, 40)
PostCell(k) ==
    LET side == Max(styleConfig.connectionDistance, 40) * Milli
    IN  <<particles[k].x \div side, particles[k].y \div side>>

\* C21: in a frame with connections enabled the grid holds the particles lit
\* in that frame and no others, each in the cell of its position after
\* integration: the pairs the pass tests are the pairs of lit particles whose
\* cells are the same or adjacent, and a particle unlit in the frame is in no
\* tested pair and at no line's end, whatever it was in the frame before.
C21_GridIsThisFrames ==
    (frame.kind = "ran" /\ variant = "R" /\ styleConfig.connectionDistance > 0) =>
        /\ frame.inGrid = frame.lit
        /\ {<<c.i, c.j>> : c \in frame.considered} =
              {c \in frame.lit \X frame.lit :
                  /\ c[1] < c[2]
                  /\ Abs(PostCell(c[1])[1] - PostCell(c[2])[1]) <= 1
                  /\ Abs(PostCell(c[1])[2] - PostCell(c[2])[2]) <= 1}
        /\ \A c \in frame.considered : c.n = 1
        /\ \A l \in frame.lines : l.i \in frame.lit /\ l.j \in frame.lit

\* a pass with a lit particle that has left the cell of its origin, and a
\* particle that moved while lit in the frame before and is unlit now
C21_Witness ==
    /\ frame.kind = "ran" /\ variant = "R" /\ styleConfig.connectionDistance > 0
    /\ ticks = 2
    /\ \E k \in frame.inGrid :
          PostCell(k) # <<particles[k].originX \div cellSize(styleConfig),
                          particles[k].originY \div cellSize(styleConfig)>>
    /\ \E k \in DOMAIN particles \ frame.lit :
          particles[k].x # particles[k].originX
    /\ frame.lines # {}

-----------------------------------------------------------------------------
(* Properties of the neighbour lookup *)

\* a frame whose cells all differ, every one above the visibility threshold
RampFrame(w, h) == [k \in 0..(w * h - 1) |-> 20 + 4 * k]

\* the offsets of the gradient estimate: lookAhead = 2 to either side
LookAhead == {<<-2, 0>>, <<2, 0>>, <<0, -2>>, <<0, 2>>}

\* c clamped to 0 .. n - 1
ClampTo(c, n) == IF c < 0 THEN 0 ELSE IF c > n - 1 THEN n - 1 ELSE c

\* C22 as stated: for the cell (px, py) of a particle and an offset of the
\* gradient estimate, getBrightness returns the value of the cell in row
\* py + dy and column px + dx when that cell is in the field, and otherwise
\* the value of that cell clamped into the field, or 0.
C22_OffsetLookupClamped ==
    (variant = "R" /\ BufW(variant) >= 1 /\ BufH(variant) >= 1) =>
        LET w == BufW(variant)
            h == BufH(variant)
            img == RampFrame(w, h)
        IN  \A k \in DOMAIN particles : \A o \in LookAhead :
              LET col == PixelX(variant, particles[k], w) + o[1]
                  row == PixelY(variant, particles[k], h) + o[2]
                  got == getBrightness(img, w, h, col, row)
              IN  IF col \in 0..(w - 1) /\ row \in 0..(h - 1)
                  THEN got = img[row * w + col]
                  ELSE got = 0 \/ got = img[ClampTo(row, h) * w + ClampTo(col, w)]

-----------------------------------------------------------------------------
(* Properties of the colour mapper *)

\* C23: for a grey level b in 0..255 and a palette of n >= 1 colours the
\* mapper returns the entry of index i = floor((b / 255) (n - 1)), the one
\* index of 0 .. n - 1 with 255 i <= b (n - 1) < 255 (i + 1): the first entry
\* for b = 0, the last for b = 255, and for equal inputs the same entry.
C23_ColourIndexInRange ==
    lastOp.op = "colour" =>
        LET palette == styleConfig.colors
            n == Len(palette)
            b == particles[1].brightness
        IN  /\ \E i \in 0..(n - 1) :
                  /\ 255 * i <= b * (n - 1) /\ b * (n - 1) < 255 * (i + 1)
                  /\ particles[1].color = palette[i + 1]
            /\ b = 0 => particles[1].color = palette[1]
            /\ b = 255 => particles[1].color = palette[n]
            /\ particles[1].color = mapBrightnessToColor(b, palette)

\* the mapper has returned an entry that is neither the first nor the last
C23_Witness ==
    /\ lastOp.op = "colour"
    /\ Len(styleConfig.colors) = 5 /\ particles[1].brightness = 128
    /\ particles[1].color = styleConfig.colors[3]

-----------------------------------------------------------------------------
(* Properties of the pointer force *)

\* the sign of a
Sgn(a) == IF a > 0 THEN 1 ELSE IF a < 0 THEN -1 ELSE 0

\* the pointer's contribution to particle k's velocity in a frame run now
PointerPush(k) ==
    PointerForce(variant, styleConfig, particles[k], mouse, isHandDetected)

\* C24 as stated: the pointer changes a particle's velocity only when it is
\* active, and then away from the pointer: along neither axis does the
\* change point from the particle towards the pointer.
C24_PointerRepels ==
    \A k \in DOMAIN particles :
        LET f == PointerPush(k)
            dx == mouse.x - particles[k].x
            dy == mouse.y - particles[k].y
        IN  (~f.nan /\ ~particles[k].nan) =>
                /\ (f.x # 0 \/ f.y # 0) => mouse.isActive
                /\ Sgn(f.x) * Sgn(dx) <= 0
                /\ Sgn(f.y) * Sgn(dy) <= 0

-----------------------------------------------------------------------------
(* Properties of the order of updates *)

\* the force contributions of a frame, by name
ForceNames == {"pointer", "flow", "spring"}

\* the orders in which they can be applied
ForceOrders ==
    {o \in [1..3 -> ForceNames] : \A a, b \in 1..3 : o[a] = o[b] => a = b}

\* contribution c to particle q, as the frame over img computes it from q
ForceOn(c, q, img) ==
    LET w == BufW(variant)
        h == BufH(variant)
        b == Brightness(variant, q, img, w, h)
    IN  CASE c = "pointer" -> PointerForce(variant, styleConfig, q, mouse, isHandDetected)
          [] c = "flow" -> FlowForce(variant, styleConfig, q, img, w, h, b, time')
          [] c = "spring" -> SpringForce(variant, styleConfig, q, b)

\* q after the contributions o[1], ..., o[n] were added to its velocity, one
\* after the other
RECURSIVE Pushed(_, _, _, _)
Pushed(o, n, q, img) ==
    IF n = 0 THEN q
    ELSE LET r == Pushed(o, n - 1, q, img)
             f == ForceOn(o[n], r, img)
         IN  [r EXCEPT !.vx = r.vx + f.x, !.vy = r.vy + f.y]

\* the orders in which the particle loop could visit n particles: forwards,
\* backwards, and from the middle
LoopOrders(n) ==
    {[k \in 1..n |-> k], [k \in 1..n |-> n + 1 - k],
     [k \in 1..n |-> ((k + n \div 2 - 1) % n) + 1]}

\* the particles after the loop visited them in the order o[1], ..., o[n]
RECURSIVE Visited(_, _, _, _)
Visited(o, n, ps, img) ==
    IF n = 0 THEN ps
    ELSE LET done == Visited(o, n - 1, ps, img)
         IN  [done EXCEPT ![o[n]] =
                UpdateParticle(variant, styleConfig, done[o[n]], img, BufW(variant),
                               BufH(variant), mouse, isHandDetected, time', <<0, 0>>)]

\* C25: in a frame the force contributions are added to the velocity and each
\* is computed from the particle's position before the frame, so adding them
\* in any order gives the velocity the frame's friction is applied to; and
\* visiting the particles in any order gives the same particles afterwards.
C25_OrderFree ==
    [][(frame'.kind = "ran" /\ styleConfig.noiseStrength = 0) =>
          \E img \in WideFrames(BufW(variant), BufH(variant)) :
              /\ \A o \in LoopOrders(Len(particles)) :
                    particles' = Visited(o, Len(particles), particles, img)
              /\ \A k \in frame'.lit : \A o \in ForceOrders :
                    ~particles'[k].nan =>
                        LET q == Pushed(o, 3, particles[k], img)
                        IN  /\ particles'[k].vx = Friction(styleConfig, q.vx)
                            /\ particles'[k].vy = Friction(styleConfig, q.vy)]_vars

\* a second frame in which the pointer, the flow field and the spring all
\* pushed a moving particle
C25_Witness ==
    /\ frame.kind = "ran" /\ ticks = 2 /\ mouse.isActive
    /\ styleConfig.flowFieldStrength > 0 /\ styleConfig.speed > 0
    /\ Cardinality(frame.lit) >= 2
    /\ \E k \in frame.lit :
          /\ ~particles[k].nan
          /\ particles[k].x # particles[k].originX
          /\ Moving(particles[k])
          /\ Abs(mouse.x - particles[k].x) < 100 * Milli

-----------------------------------------------------------------------------
(* Properties of the size easing *)

\* min + (b / 255) (max - min) for the style of the frame, in thousandths
SizeTarget(b) ==
    styleConfig.particleSizeMin
        + (b * (styleConfig.particleSizeMax - styleConfig.particleSizeMin)) \div 255

\* C26: in a frame under a style with particleSizeMin <= particleSizeMax the
\* target size of a lit particle lies in [min, max], and the particle's new
\* size lies between its old size and the target, so it is no farther from
\* the target than the old size was and never beyond it.
C26_SizeEasesToTarget ==
    [][(frame'.kind = "ran"
            /\ styleConfig.particleSizeMin <= styleConfig.particleSizeMax) =>
          \A k \in frame'.lit :
              LET target == SizeTarget(particles'[k].brightness)
                  old == particles[k].size
                  new == particles'[k].size
              IN  /\ styleConfig.particleSizeMin <= target
                  /\ target <= styleConfig.particleSizeMax
                  /\ Min(old, target) <= new /\ new <= Max(old, target)
                  /\ Abs(target - new) <= Abs(target - old)
                  /\ Abs(target - old) >= 20 => Abs(target - new) < Abs(target - old)]_vars

\* two frames at half brightness have moved a size part of the way from the
\* least size to the target
C26_Witness ==
    /\ frame.kind = "ran" /\ ticks = 2
    /\ \E k \in frame.lit :
          /\ particles[k].brightness = 128
          /\ styleConfig.particleSizeMin < particles[k].size
          /\ particles[k].size < SizeTarget(128)

-----------------------------------------------------------------------------
(* Properties of the numbers in a particle *)

\* C27 as stated: after every frame the position and velocity of every
\* particle are finite numbers, also when the active pointer is exactly on a
\* particle (distance 0).
C27_ParticlesFinite == \A k \in DOMAIN particles : ~particles[k].nan

-----------------------------------------------------------------------------
(* Properties of the hand-detected flag *)

\* C28 as stated: in part_002 a tracker result without a hand leaves the
\* hand-detected flag false, so that mouse writes are accepted again.
C28_FlagFollowsTracker ==
    [][(variant = "U" /\ lastOp'.op = "nohand") => ~isHandDetected']_vars

-----------------------------------------------------------------------------
(* C29 *)

\* C29: whatever the sequence of style changes, resizes, pause toggles, hand
\* detections, frame callbacks and unmount, at most one frame callback of
\* animate is scheduled (a restarting effect has cancelled the callback of
\* the previous loop before it requests its own), and none is scheduled
\* once the renderer is unmounted
C29_OneLoopAlive ==
    /\ raf \in {"pending", "dead"}
    /\ ~mounted => raf = "dead"

\* a frame callback ran, the effect restarted (time is reset), the new loop
\* ran a frame callback, and the renderer was unmounted with that loop's
\* next callback scheduled
C29_Witness ==
    /\ ~mounted /\ lastOp.op = "unmount"
    /\ ticks = 2 /\ time = TimeStep(variant)
    /\ variant = "R"
    /\ raf = "dead"

-----------------------------------------------------------------------------
(* C30 *)

\* C30: at most one generateArtStyle call of the controls panel is in flight
\* at any time, whether Generate was clicked or Enter was pressed
C30_OneRequestInFlight == Len(requests) <= 1

====
